---------------------------- MODULE Spec2Model ----------------------------
(***************************************************************************)
(* A model of src/scraper.py: SpellingBeeScraper, the multi-source        *)
(* fallback resolver of daily Spelling Bee answers.                        *)
(*                                                                         *)
(* Python values are modelled as follows.                                  *)
(*   str            a TLA+ string; its characters are SubSeq(s, i, i)      *)
(*   Optional[T]    None is <<>>, a value v is <<v>>                       *)
(*   dict           a record                                               *)
(*   list           a sequence                                             *)
(*   set            a set; where the code turns a set into a list or       *)
(*                  loops over it, the iteration order is an input         *)
(*   HTML text      a sequence of elements [tag, text]: "li" is a literal  *)
(*                  <li>text</li>, "li_attr" a list item whose opening tag *)
(*                  carries attributes, "p" text outside any list item,    *)
(*                  plus the flag soup_error (BeautifulSoup rejects the    *)
(*                  markup).  The empty string is the empty sequence.      *)
(***************************************************************************)
EXTENDS Integers, Sequences, FiniteSets, TLC

VARIABLES
    pc,           \* position of scrape(): "try", "parse", "validate", "sleep",
                  \* "after", "returned", "raised"
    idx,          \* index in sources of the source the for loop is at
    html,         \* Optional[str]: the local html
    result,       \* Optional[dict]: the local result
    best_result,  \* Optional[dict]
    best_source,  \* Optional[str]
    log_summary,  \* list of log entries
    ret,          \* Optional[dict]: the value scrape() returned
    calls,        \* history: the calls scrape() made so far in this run
    env,          \* <<>>: any response may arrive; else the response of each source
    run,          \* number of the current scrape() invocation
    prev_ret,     \* what the previous invocation returned
    fn,           \* the analyzer function applied to args ("" before any)
    args,         \* the inputs of the analyzer functions
    out           \* the value the analyzer function returned

vars == <<pc, idx, html, result, best_result, best_source, log_summary, ret,
          calls, env, run, prev_ret, fn, args, out>>

runVars == <<pc, idx, html, result, best_result, best_source, log_summary, ret,
             calls, env, run, prev_ret>>

fnVars == <<fn, args, out>>

----------------------------------------------------------------------------
(* Bounds of the model and constants of the program *)

\* number of distinct iteration orders of one set the model tries
MaxHashSeeds == 3

\* _validate_result: len(result['answers']) >= 15
MinAnswers == 15

\* _find_all_letters: len(answers) < 10 returns None
MinWordsForLetters == 10

\* _find_all_letters, _find_pangrams: the 7 puzzle letters
PuzzleLetterCount == 7

\* _is_spelling_bee_word: 4-15 characters
MinWordLen == 4

MaxWordLen == 15

\* response.status_code == 200
HttpOk == 200

----------------------------------------------------------------------------
(* Python built-ins *)

None == <<>>

Some(v) == <<v>>

\* the characters of the model, in code point order
Charset == " -0123456789ABCDEFGHIJKLMNOPQRSTUVWXYZ_abcdefghijklmnopqrstuvwxyz"

UpperLetters == "ABCDEFGHIJKLMNOPQRSTUVWXYZ"

LowerLetters == "abcdefghijklmnopqrstuvwxyz"

CharAt(s, i) == SubSeq(s, i, i)

\* set(s) for a str s
CharSet(s) == {CharAt(s, i) : i \in 1..Len(s)}

UpperSet == CharSet(UpperLetters)

LowerSet == CharSet(LowerLetters)

LetterSet == UpperSet \cup LowerSet

\* \w of the re module, on the characters of the model
WordCharSet == UpperSet \cup LowerSet \cup CharSet("0123456789_")

\* the rank of each character in code point order
CodePoints == [c \in CharSet(Charset) |-> CHOOSE i \in 1..Len(Charset) : CharAt(Charset, i) = c]

ord(c) == CodePoints[c]

UpperOf == [c \in LowerSet |->
              CharAt(UpperLetters, CHOOSE i \in 1..Len(LowerLetters) : CharAt(LowerLetters, i) = c)]

UpperChar(c) == IF c \in LowerSet THEN UpperOf[c] ELSE c

RECURSIVE upper(_)
\* str.upper
upper(s) == IF s = "" THEN "" ELSE UpperChar(CharAt(s, 1)) \o upper(SubSeq(s, 2, Len(s)))

\* str.isalpha
isalpha(s) == s # "" /\ \A i \in 1..Len(s) : CharAt(s, i) \in LetterSet

\* str.strip, the whitespace of the model being the space
strip(s) ==
    LET keep == {i \in 1..Len(s) : CharAt(s, i) # " "}
    IN  IF keep = {} THEN ""
        ELSE SubSeq(s, CHOOSE i \in keep : \A j \in keep : i <= j,
                       CHOOSE i \in keep : \A j \in keep : i >= j)

\* s < t for two str, as Python compares them
StrLess(s, t) ==
    LET n == IF Len(s) < Len(t) THEN Len(s) ELSE Len(t)
        diff == {i \in 1..n : CharAt(s, i) # CharAt(t, i)}
    IN  IF diff = {} THEN Len(s) < Len(t)
        ELSE LET k == CHOOSE i \in diff : \A j \in diff : i <= j
             IN  ord(CharAt(s, k)) < ord(CharAt(t, k))

RECURSIVE InsertSorted(_, _)
InsertSorted(x, seq) ==
    IF seq = <<>> THEN <<x>>
    ELSE IF StrLess(x, Head(seq)) THEN <<x>> \o seq
    ELSE <<Head(seq)>> \o InsertSorted(x, Tail(seq))

RECURSIVE sorted(_)
\* sorted(list of str): ascending; equal strings are indistinguishable
sorted(seq) == IF seq = <<>> THEN <<>> ELSE InsertSorted(seq[Len(seq)], sorted(SubSeq(seq, 1, Len(seq) - 1)))

RECURSIVE join(_)
\* ''.join(list of str)
join(seq) == IF seq = <<>> THEN "" ELSE Head(seq) \o join(Tail(seq))

Range(seq) == {seq[i] : i \in 1..Len(seq)}

Rotate(seq, h) ==
    IF seq = <<>> THEN <<>>
    ELSE [i \in 1..Len(seq) |-> seq[((i - 1 + h) % Len(seq)) + 1]]

RECURSIVE SetToSorted(_)
\* The elements of a set of str in ascending order
SetToSorted(S) ==
    IF S = {} THEN <<>>
    ELSE LET x == CHOOSE y \in S : TRUE
         IN  InsertSorted(x, SetToSorted(S \ {x}))

----------------------------------------------------------------------------
(* Word filter, parsers and validator *)

COMMON_BLOCKLIST == {
    "HTML", "HTTP", "HTTPS", "HEAD", "BODY", "SCRIPT", "STYLE", "META",
    "JSON", "AJAX", "TYPE", "NAME", "CLASS", "HREF", "LINK", "SPAN",
    "DOCTYPE", "CDATA", "AICP", "TODAY", "TODAYS", "SPELLING", "PUZZLE",
    "ANSWERS", "WORDS", "GAME", "LETTER", "LETTERS", "CENTER", "PANGRAM",
    "GENIUS", "QUEEN", "BEE", "SEPTEMBER", "OCTOBER", "NOVEMBER", "DECEMBER",
    "JANUARY", "FEBRUARY", "MARCH", "APRIL", "JUNE", "JULY", "AUGUST",
    "MONDAY", "TUESDAY", "WEDNESDAY", "THURSDAY", "FRIDAY", "SATURDAY",
    "SUNDAY", "TIMES", "NEWS", "YORK", "SOLUTION", "COMMENTS", "REPLY",
    "EMAIL", "WEBSITE", "SUBSCRIBE", "LOGIN", "LOGOUT", "REGISTER", "SEARCH",
    "POST", "EDIT", "DELETE", "UPDATE", "VIEW", "SHARE", "USER", "ADMIN",
    "FORUM", "BLOG", "ARCHIVE", "SOLVER", "HINT", "PRIME", "FINDER",
    "SBHINTS", "SBANSWERS", "SBARCHIVE", "TECHWISER", "GUIDE", "COPYRIGHT",
    "POLICY", "CONTACT", "ABOUT", "PRIVACY", "TERMS", "SERVICE", "FOLLOW" }

\* _is_spelling_bee_word(word) for a str word
_is_spelling_bee_word(word) ==
    LET w == upper(strip(word))
    IN  /\ word # ""
        /\ Len(w) >= MinWordLen
        /\ Len(w) <= MaxWordLen
        /\ isalpha(w)
        /\ w \notin COMMON_BLOCKLIST

\* list(S) for a set S of str.  The iteration order of a set of str depends on
\* the hashes of the strings, which differ from one process to the next: the
\* model tries MaxHashSeeds orders, the rotations of the ascending order.
list(S, h) == Rotate(SetToSorted(S), h)

HashSeeds == 0..(MaxHashSeeds - 1)

\* re.findall(r'<li>([A-Z]{4,})</li>', html, re.IGNORECASE): the literal list
\* items whose whole content is at least 4 letters
LiPatternMatches(h) ==
    {h.items[i].text : i \in {j \in 1..Len(h.items) :
        /\ h.items[j].tag = "li"
        /\ isalpha(h.items[j].text)
        /\ Len(h.items[j].text) >= MinWordLen}}

\* soup.find_all('li') and get_text(strip=True) of each
SoupListTexts(h) ==
    {strip(h.items[i].text) : i \in {j \in 1..Len(h.items) : h.items[j].tag \in {"li", "li_attr"}}}

\* The words the first loop of _generic_structured_parser adds
LiPatternWords(h) == {upper(m) : m \in {x \in LiPatternMatches(h) : _is_spelling_bee_word(upper(x))}}

\* The words the second loop of _generic_structured_parser adds
SoupWords(h) == {upper(t) : t \in {x \in SoupListTexts(h) : _is_spelling_bee_word(upper(x))}}

\* The set answers when _generic_structured_parser leaves its try block:
\* BeautifulSoup raising skips the second loop and keeps what the first added
StructuredAnswers(h) ==
    IF h.soup_error THEN LiPatternWords(h) ELSE LiPatternWords(h) \cup SoupWords(h)

\* _generic_structured_parser with answers kept as a list that both loops
\* append to
StructuredParserAppending(h, seed) ==
    [answers |-> list(LiPatternWords(h), seed)
                 \o (IF h.soup_error THEN <<>> ELSE list(SoupWords(h), seed))]

_generic_structured_parser(h, seed) == [answers |-> list(StructuredAnswers(h), seed)]

\* The maximal runs of \w characters of a text
WordRuns(s) ==
    {SubSeq(s, r[1], r[2]) : r \in {q \in (1..Len(s)) \X (1..Len(s)) :
        /\ q[1] <= q[2]
        /\ \A i \in q[1]..q[2] : CharAt(s, i) \in WordCharSet
        /\ (q[1] = 1 \/ CharAt(s, q[1] - 1) \notin WordCharSet)
        /\ (q[2] = Len(s) \/ CharAt(s, q[2] + 1) \notin WordCharSet)}}

\* re.findall(r'\b[A-Z]{4,15}\b', html): the runs made of 4 to 15 capitals
CapsPatternMatches(h) ==
    UNION {{w \in WordRuns(h.items[i].text) :
                /\ \A k \in 1..Len(w) : CharAt(w, k) \in UpperSet
                /\ Len(w) >= MinWordLen
                /\ Len(w) <= MaxWordLen} : i \in 1..Len(h.items)}

RegexAnswers(h) == {m \in CapsPatternMatches(h) : _is_spelling_bee_word(m)}

_generic_regex_parser(h, seed) == [answers |-> list(RegexAnswers(h), seed)]

\* _validate_result without the threshold: any non-empty result passes
ValidateNonEmpty(r) ==
    /\ r # None
    /\ r[1].answers # <<>>

\* _validate_result(result) for an Optional[dict] result
_validate_result(r) ==
    /\ r # None
    /\ r[1].answers # <<>>
    /\ Len(r[1].answers) >= MinAnswers

----------------------------------------------------------------------------
(* Deductive analysis *)

\* `letter in word` for a one-character letter
In(letter, word) == letter \in CharSet(word)

\* _find_center_letter without the test on the other words
FirstLetterOfFirstWord(answers, seed) ==
    IF answers = <<>> THEN None
    ELSE Some(list(CharSet(answers[1]), seed)[1])

\* _find_center_letter(answers); seed orders the set of the first word's letters
_find_center_letter(answers, seed) ==
    IF answers = <<>> THEN None
    ELSE LET first_word_letters == list(CharSet(answers[1]), seed)
             hits == {i \in 1..Len(first_word_letters) :
                         \A k \in 1..Len(answers) : In(first_word_letters[i], answers[k])}
         IN  IF hits = {} THEN None
             ELSE Some(first_word_letters[CHOOSE i \in hits : \A j \in hits : i <= j])

RECURSIVE CountsInOrder(_, _)
\* The entries <<letter, count>> of the letters first met at the positions
\* `first` of the text, in the order of those positions
CountsInOrder(flat, first) ==
    IF first = {} THEN <<>>
    ELSE LET i == CHOOSE k \in first : \A j \in first : j <= k
             n == Cardinality({k \in 1..Len(flat) : CharAt(flat, k) = CharAt(flat, i)})
         IN  Append(CountsInOrder(flat, first \ {i}), <<CharAt(flat, i), n>>)

\* letter_counts after the two loops: a dict keeps its keys in insertion order,
\* so it is the sequence of <<letter, count>> in the order the letters are
\* first met in the words
LetterCounts(answers) ==
    LET flat == join(answers)
        first == {CHOOSE i \in 1..Len(flat) :
                      /\ CharAt(flat, i) = c
                      /\ \A j \in 1..(i - 1) : CharAt(flat, j) # c : c \in CharSet(flat)}
    IN  CountsInOrder(flat, first)

\* Where the stable descending sort puts an entry among those sorted so far:
\* after every entry whose count is at least its own
InsertByCount(entry, seq) ==
    LET before == {i \in 1..Len(seq) : seq[i][2] >= entry[2]}
        k == Cardinality(before)
    IN  SubSeq(seq, 1, k) \o <<entry>> \o SubSeq(seq, k + 1, Len(seq))

RECURSIVE SortByCount(_)
SortByCount(counts) ==
    IF counts = <<>> THEN <<>>
    ELSE InsertByCount(counts[Len(counts)], SortByCount(SubSeq(counts, 1, Len(counts) - 1)))

\* sorted(letter_counts.keys(), key=lambda x: letter_counts[x], reverse=True):
\* the sort is stable, so letters of equal count keep their insertion order
SortedLetters(answers) ==
    LET by_count == SortByCount(LetterCounts(answers))
    IN  [p \in 1..Len(by_count) |-> by_count[p][1]]

\* _find_all_letters returning the top 7 letters as ranked, not re-sorted
FindAllLettersRanked(answers) ==
    IF answers = <<>> \/ Len(answers) < MinWordsForLetters THEN None
    ELSE LET sorted_letters == SortedLetters(answers)
         IN  IF Len(sorted_letters) >= PuzzleLetterCount
             THEN Some(join(SubSeq(sorted_letters, 1, PuzzleLetterCount)))
             ELSE None

_find_all_letters(answers) ==
    IF answers = <<>> \/ Len(answers) < MinWordsForLetters THEN None
    ELSE LET sorted_letters == SortedLetters(answers)
         IN  IF Len(sorted_letters) >= PuzzleLetterCount
             THEN Some(join(sorted(SubSeq(sorted_letters, 1, PuzzleLetterCount))))
             ELSE None

\* _find_pangrams asking for the puzzle letters and no other
FindPangramsExact(answers, letters) ==
    IF answers = <<>> \/ letters = "" \/ Len(letters) # PuzzleLetterCount THEN <<>>
    ELSE SelectSeq(answers, LAMBDA word : CharSet(letters) = CharSet(word))

\* _find_pangrams(answers, letters) for a str letters
_find_pangrams(answers, letters) ==
    IF answers = <<>> \/ letters = "" \/ Len(letters) # PuzzleLetterCount THEN <<>>
    ELSE SelectSeq(answers, LAMBDA word :
            /\ Cardinality(CharSet(word)) >= PuzzleLetterCount
            /\ CharSet(letters) \subseteq CharSet(word))

\* `x or ''` for an Optional[str] x
OrEmpty(x) == IF x = None THEN "" ELSE x[1]

\* The record scrape() builds from best_result (the field date, a copy of the
\* argument, is left out); seed orders the letters of the first word
BuildRecord(best, seed) ==
    LET centerLetter == _find_center_letter(best.answers, seed)
        letters == _find_all_letters(best.answers)
        pangrams == _find_pangrams(best.answers, OrEmpty(letters))
    IN  [letters |-> OrEmpty(letters),
         centerLetter |-> OrEmpty(centerLetter),
         wordCount |-> Len(best.answers),
         pangrams |-> pangrams,
         answers |-> sorted(best.answers)]

----------------------------------------------------------------------------
(* The pages the sources may serve *)

Li(t) == [tag |-> "li", text |-> t]

LiAttr(t) == [tag |-> "li_attr", text |-> t]

P(t) == [tag |-> "p", text |-> t]

\* A page listing 16 answers as list items: R is in every word, the letters
\* are ACELNRT and CENTRAL is the pangram
ListHtml ==
    [items |-> <<P("NYT Spelling Bee ANSWERS"), LiAttr(" About "),
                 Li("CART"), Li("RANT"), Li("TARN"), Li("RENT"), Li("TERN"), Li("CARE"),
                 Li("RACE"), Li("REAL"), Li("RATE"), Li("TEAR"), Li("NEAR"), Li("EARN"),
                 Li("LEARN"), Li("CRANE"), Li("RENTAL"), Li("CENTRAL"), Li("CARE"),
                 P("Copyright 2024")>>,
     soup_error |-> FALSE]

\* A page giving 15 answers in capitals in running text: A, E and R are in
\* every word
BulkHtml ==
    [items |-> <<LiAttr("Login"), Li("care"),
                 P("CARE RACE REAL RATE TEAR"), P("NEAR EARN LEARN CRANE RENTAL"),
                 P("CENTRAL ANTLER CRATE REACT TRACE")>>,
     soup_error |-> FALSE]

\* A page of 16 list items that all use the same 8 letters
NoisyHtml ==
    [items |-> <<Li("abcdefgh"), Li("bcdefgha"), Li("cdefghab"), Li("defghabc"),
                 Li("efghabcd"), Li("fghabcde"), Li("ghabcdef"), Li("habcdefg"),
                 Li("hgfedcba"), Li("gfedcbah"), Li("fedcbahg"), Li("edcbahgf"),
                 Li("dcbahgfe"), Li("cbahgfed"), Li("bahgfedc"), Li("ahgfedcb")>>,
     soup_error |-> FALSE]

\* A page with 3 answers in list items and 1 in capitals
FewHtml ==
    [items |-> <<P("Spelling BEE hints"), Li("care"), Li("race"), Li("care"),
                 LiAttr(" real "), Li("bee"), Li("about"), P("NEAR the-end 2024")>>,
     soup_error |-> FALSE]

\* A page with no list and 1 answer in capitals
SparseHtml == [items |-> <<P("ANSWERS: CARE")>>, soup_error |-> FALSE]

\* A page whose markup BeautifulSoup rejects, with 2 literal list items
BrokenHtml ==
    [items |-> <<Li("care"), Li("race"), LiAttr("real")>>, soup_error |-> TRUE]

\* A page whose markup BeautifulSoup rejects, with 15 literal list items
BrokenListHtml ==
    [items |-> <<Li("care"), Li("race"), Li("real"), Li("rate"), Li("tear"),
                 Li("near"), Li("earn"), Li("learn"), Li("crane"), Li("rental"),
                 Li("central"), Li("antler"), Li("crate"), Li("react"), Li("trace")>>,
     soup_error |-> TRUE]

EmptyText == [items |-> <<>>, soup_error |-> FALSE]

Pages == {ListHtml, BulkHtml, NoisyHtml, FewHtml, SparseHtml, BrokenHtml, BrokenListHtml}

\* session.get raising (timeout, connection error)
NetworkError == [exception |-> "RequestException"]

\* What session.get may do for one URL
Responses ==
    {NetworkError, [status_code |-> 500, text |-> FewHtml], [status_code |-> HttpOk, text |-> EmptyText]}
    \cup {[status_code |-> HttpOk, text |-> d] : d \in Pages}

----------------------------------------------------------------------------
(* scrape() *)

\* _build_sources(date): the names, in order (the URLs are only handed to the
\* fetch and are left out)
sources ==
    <<[name |-> "SpellingBeeTimes"], [name |-> "Techwiser"], [name |-> "SBHints"],
      [name |-> "PuzzlePrime"], [name |-> "SBSolver"],
      [name |-> "NYT Official Yesterday"], [name |-> "Reddit"]>>

\* _fetch_with_anti_bot: the text of a 200 response, None otherwise
_fetch_with_anti_bot(resp) ==
    IF "exception" \in DOMAIN resp THEN None
    ELSE IF resp.status_code = HttpOk THEN Some(resp.text)
    ELSE None

\* `not html` for an Optional[str]
NotHtml(h) == IF h = None THEN TRUE ELSE h[1].items = <<>>

\* The results of the parsers on the pages of the model, computed once
ParsedStructured == [d \in Pages |-> [s \in HashSeeds |-> _generic_structured_parser(d, s)]]

ParsedRegex == [d \in Pages |-> [s \in HashSeeds |-> _generic_regex_parser(d, s)]]

ParserResults == UNION {{ParsedStructured[d][s], ParsedRegex[d][s]} : d \in Pages, s \in HashSeeds}

\* The records built from the results of the parsers, computed once
Records == [r \in ParserResults |-> [s \in HashSeeds |-> BuildRecord(r, s)]]

\* The responses source i may give in this run
Offered(i) == IF env = <<>> THEN Responses ELSE {env[i]}

\* The history of calls: "request_delay" is the _random_sleep(1000, 2500) inside
\* _fetch_with_anti_bot, "get" its session.get, "structured" and "regex" the
\* parsers, "validate" the _validate_result after the parser loop, "sleep" the
\* _random_sleep(1500, 3000) between sources
Call(op) == Append(calls, <<op, idx>>)

\* The for loop moves to the next source, or ends after the last
NextIteration ==
    IF idx < Len(sources)
    THEN idx' = idx + 1 /\ pc' = "try"
    ELSE idx' = idx /\ pc' = "after"

Init ==
    /\ pc = "try"
    /\ idx = 1
    /\ html = None
    /\ result = None
    /\ best_result = None
    /\ best_source = None
    /\ log_summary = <<>>
    /\ ret = None
    /\ calls = <<>>
    /\ env = <<>>
    /\ run = 1
    /\ prev_ret = None
    /\ fn = ""
    /\ args = [answers |-> <<>>, letters |-> ""]
    /\ out = None

\* html = self._fetch_with_anti_bot(url) returns a text: go on to the parsers
FetchOk ==
    /\ pc = "try"
    /\ \E resp \in Offered(idx) :
          /\ ~NotHtml(_fetch_with_anti_bot(resp))
          /\ html' = _fetch_with_anti_bot(resp)
    /\ calls' = Append(Call("request_delay"), <<"get", idx>>)
    /\ pc' = "parse"
    /\ UNCHANGED <<idx, result, best_result, best_source, log_summary, ret, env, run, prev_ret>>
    /\ UNCHANGED fnVars

\* FetchFail changed to try the same source again
FetchFailRetry ==
    /\ pc = "try"
    /\ \E resp \in Offered(idx) :
          /\ NotHtml(_fetch_with_anti_bot(resp))
          /\ html' = _fetch_with_anti_bot(resp)
    /\ calls' = Append(Call("request_delay"), <<"get", idx>>)
    /\ log_summary' = Append(log_summary, <<sources[idx].name, "HTTP FAIL">>)
    /\ UNCHANGED <<pc, idx, result, best_result, best_source, ret, env, run, prev_ret>>
    /\ UNCHANGED fnVars

\* FetchFail changed to a fetch that never returns: session.get without timeout
\* against a server that never answers
FetchFailHang ==
    /\ pc = "try"
    /\ \E resp \in Offered(idx) :
          /\ NotHtml(_fetch_with_anti_bot(resp))
          /\ html' = None
    /\ calls' = Append(Call("request_delay"), <<"get", idx>>)
    /\ pc' = "fetching"
    /\ UNCHANGED <<idx, result, best_result, best_source, log_summary, ret, env, run, prev_ret>>
    /\ UNCHANGED fnVars

\* FetchFail changed to leave the failure out of the log
FetchFailSilent ==
    /\ pc = "try"
    /\ \E resp \in Offered(idx) :
          /\ NotHtml(_fetch_with_anti_bot(resp))
          /\ html' = _fetch_with_anti_bot(resp)
    /\ calls' = Append(Call("request_delay"), <<"get", idx>>)
    /\ NextIteration
    /\ UNCHANGED <<result, best_result, best_source, log_summary, ret, env, run, prev_ret>>
    /\ UNCHANGED fnVars

\* if not html: log the HTTP failure and `continue`
FetchFail ==
    /\ pc = "try"
    /\ \E resp \in Offered(idx) :
          /\ NotHtml(_fetch_with_anti_bot(resp))
          /\ html' = _fetch_with_anti_bot(resp)
    /\ calls' = Append(Call("request_delay"), <<"get", idx>>)
    /\ log_summary' = Append(log_summary, <<sources[idx].name, "HTTP FAIL">>)
    /\ NextIteration
    /\ UNCHANGED <<result, best_result, best_source, ret, env, run, prev_ret>>
    /\ UNCHANGED fnVars

\* TryParsers with the structured parser alone
TryParsersStructuredOnly ==
    /\ pc = "parse"
    /\ \E s1 \in HashSeeds :
          /\ result' = Some(ParsedStructured[html[1]][s1])
          /\ calls' = Call("structured")
    /\ pc' = "validate"
    /\ UNCHANGED <<idx, html, best_result, best_source, log_summary, ret, env, run, prev_ret>>
    /\ UNCHANGED fnVars

\* TryParsers without the break: both parsers always run, the last one wins
TryParsersBoth ==
    /\ pc = "parse"
    /\ \E s2 \in HashSeeds :
          /\ result' = Some(ParsedRegex[html[1]][s2])
          /\ calls' = Append(Call("structured"), <<"regex", idx>>)
    /\ pc' = "validate"
    /\ UNCHANGED <<idx, html, best_result, best_source, log_summary, ret, env, run, prev_ret>>
    /\ UNCHANGED fnVars

\* for parser_func in [structured, regex]: result = parser_func(html);
\* break at the first result that validates
TryParsers ==
    /\ pc = "parse"
    /\ \E s1 \in HashSeeds :
          LET structured == ParsedStructured[html[1]][s1]
          IN  IF _validate_result(Some(structured))
              THEN /\ result' = Some(structured)
                   /\ calls' = Call("structured")
              ELSE \E s2 \in HashSeeds :
                      /\ result' = Some(ParsedRegex[html[1]][s2])
                      /\ calls' = Append(Call("structured"), <<"regex", idx>>)
    /\ pc' = "validate"
    /\ UNCHANGED <<idx, html, best_result, best_source, log_summary, ret, env, run, prev_ret>>
    /\ UNCHANGED fnVars

\* Accept changed to fall through to the delay instead of `break`
AcceptNoBreak ==
    /\ pc = "validate"
    /\ _validate_result(result)
    /\ best_result' = result
    /\ best_source' = Some(sources[idx].name)
    /\ calls' = Call("validate")
    /\ pc' = "sleep"
    /\ UNCHANGED <<idx, html, result, log_summary, ret, env, run, prev_ret>>
    /\ UNCHANGED fnVars

\* if self._validate_result(result): keep it and break
Accept ==
    /\ pc = "validate"
    /\ _validate_result(result)
    /\ best_result' = result
    /\ best_source' = Some(sources[idx].name)
    /\ calls' = Call("validate")
    /\ pc' = "after"
    /\ UNCHANGED <<idx, html, result, log_summary, ret, env, run, prev_ret>>
    /\ UNCHANGED fnVars

\* else: log the validation failure with the word count of result
Reject ==
    /\ pc = "validate"
    /\ ~_validate_result(result)
    /\ LET word_count == IF result # None THEN Len(result[1].answers) ELSE 0
       IN  log_summary' = Append(log_summary,
                                 <<sources[idx].name, "PARSE/VALIDATION FAIL", word_count>>)
    /\ calls' = Call("validate")
    /\ pc' = "sleep"
    /\ UNCHANGED <<idx, html, result, best_result, best_source, ret, env, run, prev_ret>>
    /\ UNCHANGED fnVars

\* self._random_sleep(1500, 3000) at the end of the loop body
Sleep ==
    /\ pc = "sleep"
    /\ calls' = Call("sleep")
    /\ NextIteration
    /\ UNCHANGED <<html, result, best_result, best_source, log_summary, ret, env, run, prev_ret>>
    /\ UNCHANGED fnVars

\* if best_result: analyse it, build the record and return it
Return ==
    /\ pc = "after"
    /\ best_result # None
    /\ \E seed \in HashSeeds : ret' = Some(Records[best_result[1]][seed])
    /\ pc' = "returned"
    /\ UNCHANGED <<idx, html, result, best_result, best_source, log_summary, calls, env, run, prev_ret>>
    /\ UNCHANGED fnVars

\* else: raise Exception(error_msg)
Raise ==
    /\ pc = "after"
    /\ best_result = None
    /\ pc' = "raised"
    /\ UNCHANGED <<idx, html, result, best_result, best_source, log_summary, ret, calls, env, run, prev_ret>>
    /\ UNCHANGED fnVars

Next == FetchOk \/ FetchFail \/ TryParsers \/ Accept \/ Reject \/ Sleep \/ Return \/ Raise

Spec == Init /\ [][Next]_vars

\* scrape() runs in one thread and each of its steps ends: session.get has
\* timeout=30, the sleeps are at most 3000 ms, the parsers and the analysis
\* are loops over finite data.  So a step that can be taken is taken.
SpecLive == Init /\ [][Next]_vars /\ WF_vars(Next)

----------------------------------------------------------------------------
(* Two invocations of scrape() against the same responses *)

\* number of invocations of scrape() compared
MaxRuns == 2

\* Sources before k answer f, source k answers r, the later ones fail
EnvOf(k, f, r) ==
    [i \in 1..Len(sources) |-> IF i < k THEN f ELSE IF i = k THEN r ELSE NetworkError]

Environments ==
    {EnvOf(k, f, r) : k \in 1..Len(sources),
                      f \in {NetworkError, [status_code |-> HttpOk, text |-> FewHtml]},
                      r \in Responses}

InitTwice ==
    /\ pc = "try"
    /\ idx = 1
    /\ html = None
    /\ result = None
    /\ best_result = None
    /\ best_source = None
    /\ log_summary = <<>>
    /\ ret = None
    /\ calls = <<>>
    /\ env \in Environments
    /\ run = 1
    /\ prev_ret = None
    /\ fn = ""
    /\ args = [answers |-> <<>>, letters |-> ""]
    /\ out = None

\* scrape() is invoked again for the same date: its locals start afresh
Rerun ==
    /\ pc \in {"returned", "raised"}
    /\ run < MaxRuns
    /\ run' = run + 1
    /\ prev_ret' = Some(<<pc, ret>>)
    /\ pc' = "try"
    /\ idx' = 1
    /\ html' = None
    /\ result' = None
    /\ best_result' = None
    /\ best_source' = None
    /\ log_summary' = <<>>
    /\ ret' = None
    /\ calls' = <<>>
    /\ UNCHANGED env
    /\ UNCHANGED fnVars

NextTwice == Next \/ Rerun

SpecTwice == InitTwice /\ [][NextTwice]_vars

----------------------------------------------------------------------------
(* scrape() when a statement of the loop body raises *)

\* number of exceptions raised in one run of scrape()
MaxScriptErrors == 2

\* The exceptions handled so far in this run
ScriptErrors == Cardinality({i \in 1..Len(log_summary) : log_summary[i][2] = "SCRIPT ERROR"})

\* The calls already made for the source when the exception is raised: before
\* or after the fetch, in the first or the second parser, in the validation
CallsBeforeError ==
    IF pc = "try" THEN {<<>>, <<<<"request_delay", idx>>, <<"get", idx>>>>}
    ELSE IF pc = "parse" THEN {<<<<"structured", idx>>>>,
                               <<<<"structured", idx>>, <<"regex", idx>>>>}
    ELSE {<<<<"validate", idx>>>>}

\* ScriptError changed to let the exception leave scrape()
ScriptErrorPropagates ==
    /\ pc \in {"try", "parse", "validate"}
    /\ ScriptErrors < MaxScriptErrors
    /\ \E made \in CallsBeforeError : calls' = calls \o made
    /\ pc' = "raised"
    /\ UNCHANGED <<idx, html, result, best_result, best_source, log_summary, ret, env, run, prev_ret>>
    /\ UNCHANGED fnVars

\* except Exception as e: an exception raised in the try block, before
\* best_result is assigned, is logged as a script error; the loop body goes on
\* to the sleep
ScriptError ==
    /\ pc \in {"try", "parse", "validate"}
    /\ ScriptErrors < MaxScriptErrors
    /\ \E made \in CallsBeforeError : calls' = calls \o made
    /\ log_summary' = Append(log_summary, <<sources[idx].name, "SCRIPT ERROR">>)
    /\ pc' = "sleep"
    /\ UNCHANGED <<idx, html, result, best_result, best_source, ret, env, run, prev_ret>>
    /\ UNCHANGED fnVars

\* The responses of the sources are those of one of the Environments
InitErr ==
    /\ pc = "try"
    /\ idx = 1
    /\ html = None
    /\ result = None
    /\ best_result = None
    /\ best_source = None
    /\ log_summary = <<>>
    /\ ret = None
    /\ calls = <<>>
    /\ env \in Environments
    /\ run = 1
    /\ prev_ret = None
    /\ fn = ""
    /\ args = [answers |-> <<>>, letters |-> ""]
    /\ out = None

NextErr == Next \/ ScriptError

SpecErr == InitErr /\ [][NextErr]_vars

----------------------------------------------------------------------------
(* One invocation of scrape() against a registry whose responses are fixed *)

\* What each source may serve: a failure, a page with too few words, a page
\* the structured parser accepts, a page only the regex parser accepts
RegistryResponses ==
    {NetworkError} \cup {[status_code |-> HttpOk, text |-> d] : d \in {FewHtml, ListHtml, BulkHtml}}

RegistryEnvironments == [1..Len(sources) -> RegistryResponses]

InitRegistry ==
    /\ pc = "try"
    /\ idx = 1
    /\ html = None
    /\ result = None
    /\ best_result = None
    /\ best_source = None
    /\ log_summary = <<>>
    /\ ret = None
    /\ calls = <<>>
    /\ env \in RegistryEnvironments
    /\ run = 1
    /\ prev_ret = None
    /\ fn = ""
    /\ args = [answers |-> <<>>, letters |-> ""]
    /\ out = None

SpecRegistry == InitRegistry /\ [][Next]_vars

----------------------------------------------------------------------------
(* The analyzer functions applied to word lists *)

\* number of rotations of each word list the inputs take
MaxRotations == 3

\* 13 words over 8 letters: D and L are both met once
TieWords ==
    <<"REAL", "CART", "RANT", "TARN", "RENT", "TERN", "CARE", "RACE", "RATE",
      "TEAR", "NEAR", "EARN", "DEAR">>

\* Q is in the first 4 words and in no other letter's company throughout; the
\* last word shares no letter with them
QWords == <<"QUIT", "QUIZ", "AQUA", "QOPH", "TOLD">>

\* 10 words over the 4 letters A, C, E, R
FewLetterWords ==
    <<"CARE", "RACE", "ACRE", "RARE", "AREA", "RACER", "CARER", "ARECA", "CERA", "ACER">>

InputPools ==
    {ParsedStructured[ListHtml][0].answers, ParsedStructured[NoisyHtml][0].answers, TieWords,
     QWords, FewLetterWords}

InputLists ==
    UNION {{SubSeq(Rotate(pool, r), 1, n) : r \in 0..(MaxRotations - 1), n \in 0..Len(pool)} :
              pool \in InputPools}

InputLetters == {"", "ACELNRT", "ACELNR", "ABCDEFGH", "ABCDEFG"}

InitFn ==
    /\ pc = "try"
    /\ idx = 1
    /\ html = None
    /\ result = None
    /\ best_result = None
    /\ best_source = None
    /\ log_summary = <<>>
    /\ ret = None
    /\ calls = <<>>
    /\ env = <<>>
    /\ run = 1
    /\ prev_ret = None
    /\ fn = ""
    /\ args \in [answers : InputLists, letters : InputLetters]
    /\ out = None

CallFindCenterLetter ==
    /\ fn = ""
    /\ fn' = "_find_center_letter"
    /\ \E seed \in HashSeeds : out' = _find_center_letter(args.answers, seed)
    /\ UNCHANGED args
    /\ UNCHANGED runVars

CallFindAllLetters ==
    /\ fn = ""
    /\ fn' = "_find_all_letters"
    /\ out' = _find_all_letters(args.answers)
    /\ UNCHANGED args
    /\ UNCHANGED runVars

CallFindPangrams ==
    /\ fn = ""
    /\ fn' = "_find_pangrams"
    /\ out' = _find_pangrams(args.answers, args.letters)
    /\ UNCHANGED args
    /\ UNCHANGED runVars

NextFn == CallFindCenterLetter \/ CallFindAllLetters \/ CallFindPangrams

SpecFn == InitFn /\ [][NextFn]_vars

----------------------------------------------------------------------------
(* Properties *)

Last(seq) == seq[Len(seq)]

Accepted == best_result # None

Finished == pc \in {"returned", "raised"}

EmptyRecord == [letters |-> "", centerLetter |-> "", wordCount |-> 0, pangrams |-> <<>>, answers |-> <<>>]

\* C1: when every source was rejected, scrape() does not raise: it returns the
\* record whose fields are all empty or zero
C1_ExhaustedReturnsEmptyRecord ==
    (Finished /\ ~Accepted) => (pc = "returned" /\ ret = Some(EmptyRecord))

\* C2: acceptance is a hard short-circuit: the step that accepts a result only
\* adds the validation of that result to the calls, and from then on scrape()
\* makes no further call (no fetch, parser, validation or delay) and stays at
\* the accepted source
C2_AcceptanceShortCircuits ==
    [][Accepted' =>
          /\ idx' = idx
          /\ IF Accepted THEN calls' = calls ELSE calls' = Append(calls, <<"validate", idx>>)]_vars

\* A run that accepted its second source, with five sources left untried
C2_Witness ==
    /\ pc = "returned"
    /\ best_source = Some("Techwiser")
    /\ idx = 2
    /\ Last(calls) = <<"validate", 2>>

\* C3: between two consecutive source attempts the inter-attempt delay is
\* taken: whenever a source after the first is about to be tried, the last call
\* was the delay that follows the previous source
C3_DelayBetweenAttempts ==
    (pc = "try" /\ idx > 1) => Last(calls) = <<"sleep", idx - 1>>

Max(a, b) == IF a >= b THEN a ELSE b

\* C4: the log entry of a source none of whose parsers validated records the
\* largest word count over the parsers applied to the page (stated for the
\* pages both parsers read without an error)
C4_LogsBestWordCount ==
    (pc = "sleep" /\ ~html[1].soup_error) =>
        /\ Last(log_summary)[1] = sources[idx].name
        /\ Last(log_summary)[2] = "PARSE/VALIDATION FAIL"
        /\ Last(log_summary)[3] = Max(Cardinality(StructuredAnswers(html[1])),
                                      Cardinality(RegexAnswers(html[1])))

Gets(i) == Cardinality({k \in 1..Len(calls) : calls[k] = <<"get", i>>})

\* C5: within one run every source the loop has reached was fetched exactly
\* once and no other source was fetched, so there are never more fetches than
\* sources
C5_OneFetchPerSource ==
    /\ \A i \in 1..Len(sources) :
          Gets(i) = IF i < idx \/ (i = idx /\ pc # "try") THEN 1 ELSE 0
    /\ Cardinality({k \in 1..Len(calls) : calls[k][1] = "get"}) <= Len(sources)

\* A run in which all seven sources were fetched, the first of them failing
C5_Witness ==
    /\ pc = "raised"
    /\ log_summary[1] = <<"SpellingBeeTimes", "HTTP FAIL">>
    /\ \A i \in 1..Len(sources) : Gets(i) = 1

Occurrences(answers, c) ==
    LET flat == join(answers)
    IN  Cardinality({i \in 1..Len(flat) : CharAt(flat, i) = c})

\* The 7 letters ranked first by descending frequency, ties by ascending letter
AlphabeticalTop(answers) ==
    LET L == CharSet(join(answers))
    IN  {c \in L : Cardinality({d \in L :
                        \/ Occurrences(answers, d) > Occurrences(answers, c)
                        \/ /\ Occurrences(answers, d) = Occurrences(answers, c)
                           /\ ord(d) < ord(c)}) < PuzzleLetterCount}

\* C6: for a list of at least 10 words with more than 7 distinct letters,
\* _find_all_letters keeps the 7 letters ranked first by descending frequency
\* with ties broken by ascending alphabetical order, whatever the order in
\* which the words and letters are met
C6_TiesBrokenAlphabetically ==
    (/\ fn = "_find_all_letters"
     /\ Len(args.answers) >= MinWordsForLetters
     /\ Cardinality(CharSet(join(args.answers))) > PuzzleLetterCount)
    => out = Some(join(SetToSorted(AlphabeticalTop(args.answers))))

\* C7: in a returned record with letters and centerLetter both non-empty,
\* centerLetter is one of the characters of letters
C7_CenterAmongLetters ==
    (pc = "returned" /\ ret[1].letters # "" /\ ret[1].centerLetter # "")
    => ret[1].centerLetter \in CharSet(ret[1].letters)

\* each element is less than the next: ascending and without duplicate
StrictlyAscending(seq) == \A i \in 1..(Len(seq) - 1) : StrLess(seq[i], seq[i + 1])

\* C8: in a record built from an accepted source, answers and pangrams are
\* both in ascending order without duplicate
C8_AnswersAndPangramsSorted ==
    (pc = "returned") =>
        /\ StrictlyAscending(ret[1].answers)
        /\ StrictlyAscending(ret[1].pangrams)

\* C9: a second run that gets the same response from every source ends the
\* same way as the first, with the same record
C9_SameResponsesSameRecord ==
    (run > 1 /\ Finished) => prev_ret = Some(<<pc, ret>>)

\* C10: a structured parse that failed part-way left an empty result: the
\* result handed to the validation is empty when it is the structured one, and
\* the page is not accepted
C10_FailedParseIsEmpty ==
    (pc = "validate" /\ html[1].soup_error) =>
        /\ Last(calls) = <<"structured", idx>> => result[1].answers = <<>>
        /\ ~_validate_result(result)

\* The calls made for source i, in order
CallsOf(i) == SelectSeq(calls, LAMBDA c : c[2] = i)

\* C11: once the parser loop of a fetched source is over, the structured
\* parser has run first; if its word set has at least 15 words the regex
\* parser has not run and result holds the structured word set; otherwise the
\* regex parser ran next and result holds the regex word set.
C11_ParsersInOrderFirstValidWins ==
    (pc = "validate") =>
        LET made == CallsOf(idx)
        IN  IF Cardinality(StructuredAnswers(html[1])) >= MinAnswers
            THEN /\ made = <<<<"request_delay", idx>>, <<"get", idx>>, <<"structured", idx>>>>
                 /\ Range(result[1].answers) = StructuredAnswers(html[1])
            ELSE /\ made = <<<<"request_delay", idx>>, <<"get", idx>>, <<"structured", idx>>,
                             <<"regex", idx>>>>
                 /\ Range(result[1].answers) = RegexAnswers(html[1])

\* The list page is accepted on its structured result, the regex parser unused
C11_Witness ==
    /\ pc = "returned"
    /\ html = Some(ListHtml)
    /\ Range(best_result[1].answers) = StructuredAnswers(ListHtml)
    /\ Last(calls) = <<"validate", idx>>
    /\ <<"regex", idx>> \notin Range(calls)

\* C12: in every record returned, wordCount is the number of elements of
\* answers and no word occurs twice in answers.
C12_WordCountAndNoDuplicates ==
    (ret # None) =>
        /\ ret[1].wordCount = Len(ret[1].answers)
        /\ Cardinality(Range(ret[1].answers)) = Len(ret[1].answers)

\* The list page names CARE in two list items and once more for both loops
C12_Witness ==
    /\ pc = "returned"
    /\ html = Some(ListHtml)
    /\ Cardinality({i \in 1..Len(ListHtml.items) : ListHtml.items[i] = Li("CARE")}) = 2
    /\ ret[1].wordCount = 16

\* C13: the validation of a candidate succeeds exactly when the candidate is
\* not None and has at least 15 distinct words; an accepted result has at
\* least 15 words and a returned record has wordCount >= 15.
C13_ValidatorThreshold ==
    /\ [](/\ (best_result # None) => Cardinality(Range(best_result[1].answers)) >= MinAnswers
          /\ (ret # None) => ret[1].wordCount >= MinAnswers)
    /\ [][(pc = "validate") =>
             ((best_result' # None) <=>
                 (result # None /\ Cardinality(Range(result[1].answers)) >= MinAnswers))]_vars

\* A page with exactly 15 words is accepted
C13_Witness ==
    /\ pc = "returned"
    /\ ret[1].wordCount = MinAnswers
    /\ \E i \in 1..Len(log_summary) : Len(log_summary[i]) = 3 /\ log_summary[i][3] < MinAnswers

\* The letters that occur in every word of a list
UniversalLetters(answers) ==
    {c \in CharSet(join(answers)) : \A k \in 1..Len(answers) : In(c, answers[k])}

\* C14: _find_center_letter returns a letter exactly when some letter of the
\* first word is in every word; the letter returned is in every word; for an
\* empty list or a list with no universal letter it returns None; when one
\* letter alone is universal it returns that letter.
C14_CenterLetterIsUniversal ==
    (fn = "_find_center_letter") =>
        LET universal == UniversalLetters(args.answers)
        IN  /\ (out # None) <=>
                   (args.answers # <<>> /\ CharSet(args.answers[1]) \cap universal # {})
            /\ (out # None) => out[1] \in universal
            /\ (args.answers = <<>> \/ universal = {}) => out = None
            /\ (Cardinality(universal) = 1) => out = Some(CHOOSE c \in universal : TRUE)

\* Every word has Q and no other letter is in all of them
C14_Witness ==
    /\ fn = "_find_center_letter"
    /\ args.answers = SubSeq(QWords, 1, 4)
    /\ UniversalLetters(args.answers) = {"Q"}
    /\ out = Some("Q")

\* C15: _find_pangrams returns the words of answers that have at least 7
\* distinct letters and all the letters of `letters`, and nothing when
\* `letters` is empty or not 7 characters long; a word with further letters
\* qualifies, a word lacking one of the letters does not, and every word
\* returned is a word of answers.
C15_PangramsAreSupersets ==
    (fn = "_find_pangrams") =>
        /\ Range(out) \subseteq Range(args.answers)
        /\ IF Len(args.letters) = PuzzleLetterCount
           THEN Range(out) = {w \in Range(args.answers) :
                                 /\ Cardinality(CharSet(w)) >= PuzzleLetterCount
                                 /\ \A i \in 1..Len(args.letters) : In(CharAt(args.letters, i), w)}
           ELSE out = <<>>

\* A word of 8 distinct letters is a pangram of 7 of them
C15_Witness ==
    /\ fn = "_find_pangrams"
    /\ args.letters = "ABCDEFG"
    /\ "ABCDEFGH" \in Range(out)

\* The characters of a string are pairwise distinct and in ascending order
AscendingChars(s) == \A i \in 1..(Len(s) - 1) : ord(CharAt(s, i)) < ord(CharAt(s, i + 1))

\* C16: _find_all_letters returns None for fewer than 10 words or fewer than
\* 7 distinct letters overall, and otherwise 7 pairwise distinct letters in
\* ascending order.
C16_SevenAscendingLettersOrNone ==
    (fn = "_find_all_letters") =>
        IF Len(args.answers) < MinWordsForLetters
           \/ Cardinality(CharSet(join(args.answers))) < PuzzleLetterCount
        THEN out = None
        ELSE /\ out # None
             /\ Len(out[1]) = PuzzleLetterCount
             /\ AscendingChars(out[1])
             /\ CharSet(out[1]) \subseteq CharSet(join(args.answers))

\* 13 words over 8 letters give 7 letters in ascending order
C16_Witness ==
    /\ fn = "_find_all_letters"
    /\ args.answers = TieWords
    /\ out = Some("ACELNRT")

\* The number of sources rejected so far
Rejected ==
    IF pc \in {"try", "parse", "validate"} \/ Accepted THEN idx - 1 ELSE idx

\* C17: when a source is accepted or the sources are exhausted, the log has
\* one entry for each source rejected before, in the order of the registry,
\* each with the name of its source; the entry of a source whose fetch gave
\* no HTML (its parsers never ran) is an HTTP failure, the entry of any other
\* a parse/validation failure.
C17_LogListsRejectionsInOrder ==
    (pc \in {"after", "returned", "raised"}) =>
        /\ Len(log_summary) = Rejected
        /\ \A i \in 1..Len(log_summary) :
              /\ log_summary[i][1] = sources[i].name
              /\ Gets(i) = 1
              /\ IF <<"structured", i>> \in Range(calls)
                 THEN log_summary[i][2] = "PARSE/VALIDATION FAIL"
                 ELSE log_summary[i] = <<sources[i].name, "HTTP FAIL">>

\* Source 1 fails to fetch and source 2 serves the list page: the log holds
\* the HTTP failure of source 1 and the record has the words of source 2
C17_Witness ==
    /\ pc = "returned"
    /\ log_summary = <<<<"SpellingBeeTimes", "HTTP FAIL">>>>
    /\ best_source = Some("Techwiser")
    /\ html = Some(ListHtml)
    /\ Range(ret[1].answers) = StructuredAnswers(ListHtml)
    /\ ret[1].wordCount = 16

\* C18: every run of scrape() ends: it returns the record of an accepted
\* source or raises after all the sources were rejected, and does not stay
\* for ever fetching, parsing or validating.
C18_RunTerminates ==
    <>(\/ pc = "returned" /\ Accepted
       \/ pc = "raised" /\ ~Accepted /\ Len(log_summary) = Len(sources))

\* The run that goes through all seven sources, the last one rejected after
\* its parsers ran
C18_Witness ==
    /\ pc = "raised"
    /\ idx = Len(sources)
    /\ Len(log_summary) = Len(sources)
    /\ Last(calls) = <<"sleep", Len(sources)>>

\* The pages for which some parser finds at least 15 words
AcceptablePages ==
    {d \in Pages : \/ Cardinality(StructuredAnswers(d)) >= MinAnswers
                   \/ Cardinality(RegexAnswers(d)) >= MinAnswers}

\* The fetch of this response succeeds and some parser finds 15 words in it
Acceptable(resp) ==
    IF "exception" \in DOMAIN resp THEN FALSE
    ELSE resp.status_code = HttpOk /\ resp.text \in AcceptablePages

\* Where in calls the fetch of source i was made
GetPosition(i) == CHOOSE k \in 1..Len(calls) : calls[k] = <<"get", i>>

\* C19: when a source is accepted, every source before it in the registry
\* was fetched before it, in the order of the registry, and was rejected (it
\* has its log entry and its response was a failed fetch or a page in which
\* no parser finds 15 words), and the accepted source is one whose fetch
\* succeeds with a parser finding 15 words: the first such in the registry.
C19_FirstAcceptableSourceWins ==
    Accepted =>
        /\ best_source = Some(sources[idx].name)
        /\ Acceptable(env[idx])
        /\ Gets(idx) = 1
        /\ Len(log_summary) = idx - 1
        /\ \A i \in 1..(idx - 1) :
              /\ ~Acceptable(env[i])
              /\ Gets(i) = 1
              /\ GetPosition(i) < GetPosition(i + 1)
              /\ log_summary[i][1] = sources[i].name

\* Source 3 is accepted on a page only the regex parser accepts, after a
\* failed fetch and a page with too few words; a later source was acceptable
C19_Witness ==
    /\ pc = "returned"
    /\ idx = 3
    /\ env[1] = NetworkError
    /\ env[2] = [status_code |-> HttpOk, text |-> FewHtml]
    /\ env[3] = [status_code |-> HttpOk, text |-> BulkHtml]
    /\ Acceptable(env[4])
    /\ best_source = Some("SBHints")

\* The step appends a script error to the log
LogsScriptError ==
    /\ Len(log_summary') = Len(log_summary) + 1
    /\ Last(log_summary')[2] = "SCRIPT ERROR"

\* C20: an exception raised while a source is processed does not end the
\* run: scrape() raises only after the loop is over; the step that handles
\* the exception logs the source as a script error, leaves best_result and
\* best_source unset and goes to the delay; the delay is taken and the loop
\* moves to the next source, or ends after the last.
C20_ScriptErrorContinues ==
    /\ [][(pc' = "raised") => (pc = "after" /\ ~Accepted)]_vars
    /\ [][LogsScriptError =>
               /\ pc \in {"try", "parse", "validate"}
               /\ Last(log_summary')[1] = sources[idx].name
               /\ pc' = "sleep"
               /\ idx' = idx
               /\ best_result' = None
               /\ best_source' = None]_vars
    /\ [][(pc = "sleep") =>
               /\ calls' = Append(calls, <<"sleep", idx>>)
               /\ best_result' = None
               /\ IF idx < Len(sources) THEN idx' = idx + 1 /\ pc' = "try" ELSE pc' = "after"]_vars

\* The first source raises while it is parsed, the delay is taken and the
\* second source is accepted
C20_Witness ==
    /\ pc = "returned"
    /\ log_summary = <<<<"SpellingBeeTimes", "SCRIPT ERROR">>>>
    /\ <<"structured", 1>> \in Range(calls)
    /\ <<"sleep", 1>> \in Range(calls)
    /\ best_source = Some("Techwiser")

=============================================================================
